---- MODULE Spec2Model ----
(***************************************************************************)
(* phraser.py: the most frequently repeated phrases of a text.             *)
(*                                                                         *)
(* A Python str is the sequence of the code points (ord) of its            *)
(* characters, so that splitting, stripping and joining are computed       *)
(* character by character.  A Python dict is a sequence of entries in      *)
(* insertion order (the order in which .items() and sorted() see them).    *)
(***************************************************************************)
EXTENDS Integers, Sequences, FiniteSets, TLC

VARIABLES
    text,       \* f.read(): the document
    minlen,     \* module global minlen
    maxlen,     \* module global maxlen
    top_x,      \* module global top_x
    pc,         \* position in main / build_tree
    root,       \* build_tree: root
    sentences,  \* build_tree: pieces of sentences.split('.') not yet visited
    words,      \* build_tree: words of the sentence being visited
    start,      \* build_tree: next start index of the inner loop
    sidx,       \* number of sentences visited so far
    visited,    \* history: the word list of every sentence visited
    inserted,   \* history: every call add_to_node(root, words[start:end])
    writes,     \* history: every assignment phrases[key] = count, in order
    phrases,    \* main: phrases
    output      \* lines printed by print_top_x

vars == <<text, minlen, maxlen, top_x, pc, root, sentences, words, start,
          sidx, visited, inserted, writes, phrases, output>>

----------------------------------------------------------------------------
(* Bounds of the model. *)

MaxTextLen == 4
MaxLen == 2
MaxTopX == 2
MaxCount == 2

----------------------------------------------------------------------------
(* Characters. *)

\* chr(96)
Backquote == SubSeq("`'", 1, 1)

\* the characters chr(32) .. chr(126), in order
Ascii ==
    <<" ", "!", "\"", "#", "$", "%", "&", "'", "(", ")", "*", "+", ",", "-",
      ".", "/", "0", "1", "2", "3", "4", "5", "6", "7", "8", "9", ":", ";",
      "<", "=", ">", "?", "@", "A", "B", "C", "D", "E", "F", "G", "H", "I",
      "J", "K", "L", "M", "N", "O", "P", "Q", "R", "S", "T", "U", "V", "W",
      "X", "Y", "Z", "[", "\\", "]", "^", "_", Backquote, "a", "b", "c", "d",
      "e", "f", "g", "h", "i", "j", "k", "l", "m", "n", "o", "p", "q", "r",
      "s", "t", "u", "v", "w", "x", "y", "z", "{", "|", "}", "~">>

\* ord(c)
Ord(c) == 31 + (CHOOSE i \in 1..Len(Ascii) : Ascii[i] = c)

\* the str written as the tuple s of its characters
Str(s) == [i \in 1..Len(s) |-> Ord(s[i])]

Chars(S) == {Ord(c) : c \in S}

Space == Ord(" ")
Period == Ord(".")

Alphabet == Chars({"a", "b", " ", ".", ";", ","})

\* string.punctuation
Punctuation ==
    Chars({"!", "\"", "#", "$", "%", "&", "'", "(", ")", "*", "+", ",", "-",
           ".", "/", ":", ";", "<", "=", ">", "?", "@", "[", "\\", "]", "^",
           "_", Backquote, "{", "|", "}", "~"})

\* the characters str.strip() and str.split() treat as white space
\* (str.isspace): \t \n \x0b \x0c \r, \x1c .. \x1f, the space, \x85, \xa0,
\* U+1680, U+2000 .. U+200A, U+2028, U+2029, U+202F, U+205F, U+3000
Whitespace ==
    (9..13) \cup (28..32) \cup {133, 160, 5760} \cup (8192..8202)
    \cup {8232, 8233, 8239, 8287, 12288}

\* the characters of the class [;!?]
SentenceEnd == Chars({";", "!", "?"})

----------------------------------------------------------------------------
(* str operations used by build_tree and get_phrases. *)

\* ReSub with the semicolon forgotten in the character class
ReSub_NoSemicolon(s) ==
    [i \in 1..Len(s) |-> IF s[i] \in Chars({"!", "?"}) THEN Period ELSE s[i]]

\* re.sub('[;!?]', '.', s)
ReSub(s) == [i \in 1..Len(s) |-> IF s[i] \in SentenceEnd THEN Period ELSE s[i]]

\* index of the first occurrence of character c in s, 0 when there is none
Find(s, c) ==
    IF \E i \in 1..Len(s) : s[i] = c
    THEN CHOOSE i \in 1..Len(s) : s[i] = c /\ \A j \in 1..(i-1) : s[j] # c
    ELSE 0

\* s.split(sep): k separators give k+1 pieces, empty pieces included
RECURSIVE Split(_, _)
Split(s, sep) ==
    LET i == Find(s, sep) IN
    IF i = 0 THEN <<s>>
    ELSE <<SubSeq(s, 1, i-1)>> \o Split(SubSeq(s, i+1, Len(s)), sep)

\* s.translate(str.maketrans('', '', string.punctuation))
IsNotPunctuation(c) == c \notin Punctuation
Translate(s) == SelectSeq(s, IsNotPunctuation)

\* s.strip()
RECURSIVE LStrip(_)
LStrip(s) == IF s # <<>> /\ Head(s) \in Whitespace THEN LStrip(Tail(s)) ELSE s

RECURSIVE RStrip(_)
RStrip(s) ==
    IF s # <<>> /\ s[Len(s)] \in Whitespace
    THEN RStrip(SubSeq(s, 1, Len(s)-1)) ELSE s

Strip(s) == RStrip(LStrip(s))

\* length of the leading run of non-white-space characters of s
RECURSIVE WordEnd(_)
WordEnd(s) ==
    IF s = <<>> \/ Head(s) \in Whitespace THEN 0 ELSE 1 + WordEnd(Tail(s))

\* s.split(): the maximal runs of non-white-space characters
RECURSIVE SplitWords(_)
SplitWords(s) ==
    LET t == LStrip(s) IN
    IF t = <<>> THEN <<>>
    ELSE LET n == WordEnd(t) IN
         <<SubSeq(t, 1, n)>> \o SplitWords(SubSeq(t, n+1, Len(t)))

----------------------------------------------------------------------------
(* class Node, and dicts. *)

\* Node(count, children)
Node(count, children) == [count |-> count, children |-> children]

\* position of key w in the dict d (a sequence of entries), 0 when absent
KeyIndex(d, w) ==
    IF \E i \in 1..Len(d) : d[i].key = w
    THEN CHOOSE i \in 1..Len(d) : d[i].key = w
    ELSE 0

\* d[k] = v : an existing key keeps its position, a new key goes last
DictSet(d, k, v) ==
    LET i == KeyIndex(d, k) IN
    IF i # 0 THEN [d EXCEPT ![i].val = v]
    ELSE Append(d, [key |-> k, val |-> v])

\* the dict after the assignments of log, in order
RECURSIVE DictAssign(_, _)
DictAssign(d, log) ==
    IF log = <<>> THEN d
    ELSE DictAssign(DictSet(d, Head(log).key, Head(log).val), Tail(log))

----------------------------------------------------------------------------
(* add_to_node *)

\* add_to_node without "oldchild.count += 1"
RECURSIVE add_to_node_NoIncrement(_, _)
add_to_node_NoIncrement(node, phrase) ==
    IF Len(phrase) = 0 THEN node
    ELSE
      LET i == KeyIndex(node.children, phrase[1]) IN
      IF i # 0
      THEN LET oldchild == node.children[i].val
           IN  [node EXCEPT
                  !.children[i].val = add_to_node_NoIncrement(oldchild, Tail(phrase))]
      ELSE LET newchild == Node(1, <<>>)
           IN  [node EXCEPT
                  !.children = Append(@, [key |-> phrase[1],
                                          val |-> add_to_node_NoIncrement(newchild, Tail(phrase))])]

\* add_to_node counting once more the node at which the phrase is exhausted
RECURSIVE add_to_node_CountEnd(_, _)
add_to_node_CountEnd(node, phrase) ==
    IF Len(phrase) = 0 THEN [node EXCEPT !.count = @ + 1]
    ELSE
      LET i == KeyIndex(node.children, phrase[1]) IN
      IF i # 0
      THEN LET oldchild == node.children[i].val
               counted == [oldchild EXCEPT !.count = @ + 1]
           IN  [node EXCEPT
                  !.children[i].val = add_to_node_CountEnd(counted, Tail(phrase))]
      ELSE LET newchild == Node(1, <<>>)
           IN  [node EXCEPT
                  !.children = Append(@, [key |-> phrase[1],
                                          val |-> add_to_node_CountEnd(newchild, Tail(phrase))])]

RECURSIVE add_to_node(_, _)
add_to_node(node, phrase) ==
    IF Len(phrase) = 0 THEN node
    ELSE
      LET i == KeyIndex(node.children, phrase[1]) IN
      IF i # 0
      THEN LET oldchild == node.children[i].val
               counted == [oldchild EXCEPT !.count = @ + 1]
           IN  [node EXCEPT
                  !.children[i].val = add_to_node(counted, Tail(phrase))]
      ELSE LET newchild == Node(1, <<>>)
           IN  [node EXCEPT
                  !.children = Append(@, [key |-> phrase[1],
                                          val |-> add_to_node(newchild, Tail(phrase))])]

----------------------------------------------------------------------------
(* get_phrases: the assignments phrases[key] = count it performs, in order *)

RECURSIVE get_phrases(_, _, _)
RECURSIVE get_phrases_children(_, _, _, _)

\* the loop with "node.count >= child_node.count"
get_phrases_children_GreaterEqual(node, current_phrase, word_len, k) ==
    IF k > Len(node.children) THEN <<>>
    ELSE
      LET word == node.children[k].key
          child_node == node.children[k].val
      IN  (IF node.count >= child_node.count /\ word_len >= minlen
           THEN <<[key |-> Strip(current_phrase), val |-> node.count]>>
           ELSE <<>>)
          \o get_phrases(child_node, current_phrase \o word \o <<Space>>, word_len + 1)
          \o get_phrases_children(node, current_phrase, word_len, k + 1)

\* the loop recursing into a child only when the parent was not recorded for it
get_phrases_children_RecordOrDescend(node, current_phrase, word_len, k) ==
    IF k > Len(node.children) THEN <<>>
    ELSE
      LET word == node.children[k].key
          child_node == node.children[k].val
      IN  (IF node.count > child_node.count /\ word_len >= minlen
           THEN <<[key |-> Strip(current_phrase), val |-> node.count]>>
           ELSE get_phrases(child_node, current_phrase \o word \o <<Space>>, word_len + 1))
          \o get_phrases_children(node, current_phrase, word_len, k + 1)

\* the loop recording the parent's phrase with the child's count
get_phrases_children_ChildCount(node, current_phrase, word_len, k) ==
    IF k > Len(node.children) THEN <<>>
    ELSE
      LET word == node.children[k].key
          child_node == node.children[k].val
      IN  (IF node.count > child_node.count /\ word_len >= minlen
           THEN <<[key |-> Strip(current_phrase), val |-> child_node.count]>>
           ELSE <<>>)
          \o get_phrases(child_node, current_phrase \o word \o <<Space>>, word_len + 1)
          \o get_phrases_children(node, current_phrase, word_len, k + 1)

get_phrases(node, current_phrase, word_len) ==
    IF node.children = <<>> /\ word_len >= minlen
    THEN <<[key |-> Strip(current_phrase), val |-> node.count]>>
    ELSE get_phrases_children(node, current_phrase, word_len, 1)

\* the loop "for word, child_node in node.children.items()", from the k-th item
get_phrases_children(node, current_phrase, word_len, k) ==
    IF k > Len(node.children) THEN <<>>
    ELSE
      LET word == node.children[k].key
          child_node == node.children[k].val
      IN  (IF node.count > child_node.count /\ word_len >= minlen
           THEN <<[key |-> Strip(current_phrase), val |-> node.count]>>
           ELSE <<>>)
          \o get_phrases(child_node, current_phrase \o word \o <<Space>>, word_len + 1)
          \o get_phrases_children(node, current_phrase, word_len, k + 1)

----------------------------------------------------------------------------
(* print_top_x *)

\* InsertSorted without reverse=True: ascending
RECURSIVE InsertSorted_Ascending(_, _)
InsertSorted_Ascending(s, e) ==
    IF s = <<>> THEN <<e>>
    ELSE IF Head(s).val <= e.val
         THEN <<Head(s)>> \o InsertSorted_Ascending(Tail(s), e)
    ELSE <<e>> \o s

\* insert entry e into the list s, sorted by val descending, after its equals
RECURSIVE InsertSorted(_, _)
InsertSorted(s, e) ==
    IF s = <<>> THEN <<e>>
    ELSE IF Head(s).val >= e.val THEN <<Head(s)>> \o InsertSorted(Tail(s), e)
    ELSE <<e>> \o s

\* sorted(phrases.keys(), key = lambda x: phrases[x], reverse=True): stable
RECURSIVE Sorted(_)
Sorted(d) ==
    IF d = <<>> THEN <<>>
    ELSE InsertSorted(Sorted(SubSeq(d, 1, Len(d)-1)), d[Len(d)])

\* the loop of print_top_x over the sorted keys, i being the next rank
RECURSIVE PrintLoop(_, _)
PrintLoop(s, i) ==
    IF s = <<>> \/ i > top_x THEN <<>>
    ELSE <<[rank |-> i, count |-> Head(s).val, phrase |-> Head(s).key]>>
         \o PrintLoop(Tail(s), i + 1)

print_top_x(d) == PrintLoop(Sorted(d), 1)

----------------------------------------------------------------------------
(* Inputs. *)

Texts == UNION {[1..n -> Alphabet] : n \in 0..MaxTextLen}

\* the scenarios of the documentation and two richer documents
ScenarioA == Str(<<"a", " ", "b", " ", "c", ".", " ", "a", " ", "b", " ", "d", ".">>)
ScenarioB == Str(<<"x", " ", "y">>)
ScenarioC == Str(<<"a", ".">>)
ScenarioD == Str(<<"p", " ", "q", " ", "r", ".", " ", "p", " ", "q", " ", "r", ".">>)
ScenarioE == Str(<<"a", " ", "b", "!", " ", "a", " ", "b", " ", "a", "?", "a", " ", "c", ";", "a">>)
ScenarioF == Str(<<"a", " ", "a", " ", "b">>)
\* "a`b" \x0c "c" U+3000 "a`b?" \x0b "c," U+2003 "d" \xa0
ScenarioG ==
    Str(<<"a", Backquote, "b">>) \o <<12>> \o Str(<<"c">>) \o <<12288>>
    \o Str(<<"a", Backquote, "b", "?">>) \o <<11>> \o Str(<<"c", ",">>)
    \o <<8195>> \o Str(<<"d">>) \o <<160>>

Scenarios ==
    { <<ScenarioA, 2, 2, 1>>, <<ScenarioA, 2, 3, 3>>, <<ScenarioA, 1, 3, 2>>,
      <<ScenarioB, 2, 5, 1>>, <<ScenarioC, 2, 2, 1>>,
      <<ScenarioD, 2, 3, 3>>, <<ScenarioD, 1, 2, 0>>,
      <<ScenarioE, 1, 3, 3>>, <<ScenarioE, 2, 2, 2>>,
      <<ScenarioF, 1, 2, 3>>,
      <<ScenarioG, 1, 2, 2>>, <<ScenarioG, 2, 3, 3>> }

ValidConfig == 1 <= minlen /\ minlen <= maxlen

InitRest ==
    /\ pc = "main"
    /\ root = Node(0, <<>>)
    /\ sentences = <<>>
    /\ words = <<>>
    /\ start = 0
    /\ sidx = 0
    /\ visited = <<>>
    /\ inserted = <<>>
    /\ writes = <<>>
    /\ phrases = <<>>
    /\ output = <<>>

Init ==
    /\ \/ /\ text \in Texts
          /\ minlen \in 1..MaxLen
          /\ maxlen \in minlen..MaxLen
          /\ top_x \in 0..MaxTopX
       \/ \E sc \in Scenarios :
            /\ text = sc[1]
            /\ minlen = sc[2]
            /\ maxlen = sc[3]
            /\ top_x = sc[4]
    /\ InitRest

\* the module globals are not checked anywhere: any configuration runs
InitAnyConfig ==
    /\ text \in Texts
    /\ minlen \in (0 - MaxLen)..MaxLen
    /\ maxlen \in (0 - MaxLen)..MaxLen
    /\ top_x \in 0..MaxTopX
    /\ InitRest

\* the key current_phrase.strip() that get_phrases builds for the node
\* reached by the words path
RECURSIVE CurrentPhrase(_)
CurrentPhrase(path) ==
    IF path = <<>> THEN <<>>
    ELSE CurrentPhrase(SubSeq(path, 1, Len(path) - 1)) \o path[Len(path)] \o <<Space>>

PhraseText(path) == Strip(CurrentPhrase(path))

\* print_top_x as a function of any dict: dicts of up to three phrases
PhrasePool == {Str(<<"a">>), Str(<<"b">>), Str(<<"a", " ", "b">>)}

CandidateMaps ==
    UNION { {d \in [1..n -> [key : PhrasePool, val : 0..MaxCount]] :
                \A i, j \in 1..n : i # j => d[i].key # d[j].key}
            : n \in 0..Cardinality(PhrasePool) }

InitPrint ==
    /\ text = <<>>
    /\ minlen = 1
    /\ maxlen = 1
    /\ top_x \in 0..MaxTopX
    /\ pc = "print_top_x"
    /\ root = Node(0, <<>>)
    /\ sentences = <<>>
    /\ words = <<>>
    /\ start = 0
    /\ sidx = 0
    /\ visited = <<>>
    /\ inserted = <<>>
    /\ writes = <<>>
    /\ phrases \in CandidateMaps
    /\ output = <<>>

----------------------------------------------------------------------------
(* main and build_tree, step by step. *)

\* the end index without the limit of maxlen words
WindowEnd_NoMaxlen(s) == Len(words)

\* range(len(words)-minlen) : the last start index is lost
MoreStarts_OffByOne == Len(words) # 0 /\ start < Len(words) - minlen

\* the sentence was not discarded as empty, and range(len(words)-minlen+1)
\* still has the index start
MoreStarts == Len(words) # 0 /\ start < Len(words) - minlen + 1

\* s[lo:hi]: a negative index counts from the end, and both are clipped
\* to 0 .. len(s)
Slice(s, lo, hi) ==
    LET n == Len(s)
        clip(i) == IF i < 0 THEN (IF i + n < 0 THEN 0 ELSE i + n)
                   ELSE IF i > n THEN n ELSE i
    IN  SubSeq(s, clip(lo) + 1, clip(hi))

\* end = min(len(words), start+maxlen), for the 0-based index s
WindowEnd(s) == IF Len(words) <= s + maxlen THEN Len(words) ELSE s + maxlen

\* build_tree up to the loop over the sentences
BuildTreeBegin ==
    /\ pc = "main"
    /\ pc' = "build_tree"
    /\ root' = Node(0, <<>>)
    /\ sentences' = Split(ReSub(text), Period)
    /\ UNCHANGED <<text, minlen, maxlen, top_x, words, start, sidx, visited,
                   inserted, writes, phrases, output>>

\* the next s of "for s in sentences.split('.')": its words
NextSentence ==
    /\ pc = "build_tree"
    /\ ~MoreStarts
    /\ sentences # <<>>
    /\ LET s == Translate(Head(sentences))
           w == SplitWords(Strip(s))
       IN  /\ words' = w
           /\ visited' = Append(visited, w)
    /\ sentences' = Tail(sentences)
    /\ sidx' = sidx + 1
    /\ start' = 0
    /\ UNCHANGED <<text, minlen, maxlen, top_x, pc, root, inserted, writes,
                   phrases, output>>

\* one iteration of "for start in range(len(words)-minlen+1)"
InsertWindow ==
    /\ pc = "build_tree"
    /\ MoreStarts
    /\ LET end == WindowEnd(start)
           window == Slice(words, start, end)
       IN  /\ root' = add_to_node(root, window)
           /\ inserted' = Append(inserted,
                  [sentence |-> sidx, start |-> start, window |-> window])
    /\ start' = start + 1
    /\ UNCHANGED <<text, minlen, maxlen, top_x, pc, sentences, words, sidx,
                   visited, writes, phrases, output>>

\* build_tree returns root; main calls get_phrases(tree, "", phrases, 0)
GetPhrases ==
    /\ pc = "build_tree"
    /\ ~MoreStarts
    /\ sentences = <<>>
    /\ LET log == get_phrases(root, <<>>, 0)
       IN  /\ writes' = log
           /\ phrases' = DictAssign(phrases, log)
    /\ pc' = "print_top_x"
    /\ UNCHANGED <<text, minlen, maxlen, top_x, root, sentences, words, start,
                   sidx, visited, inserted, output>>

\* main calls print_top_x(phrases)
PrintTopX ==
    /\ pc = "print_top_x"
    /\ output' = print_top_x(phrases)
    /\ pc' = "done"
    /\ UNCHANGED <<text, minlen, maxlen, top_x, root, sentences, words, start,
                   sidx, visited, inserted, writes, phrases>>

Next ==
    \/ BuildTreeBegin
    \/ NextSentence
    \/ InsertWindow
    \/ GetPhrases
    \/ PrintTopX

Spec == Init /\ [][Next]_vars

SpecAnyConfig == InitAnyConfig /\ [][Next]_vars

NextPrint == PrintTopX

SpecPrint == InitPrint /\ [][NextPrint]_vars

----------------------------------------------------------------------------
(* What the properties speak of, stated without the operators above.       *)

\* the sentence boundary characters
Boundary == Chars({".", ";", "!", "?"})

\* positions of the boundaries of t, with the two ends of t
Cuts(t) == {0} \cup {i \in 1..Len(t) : t[i] \in Boundary} \cup {Len(t) + 1}

\* the sentences of t: <<lo, hi>> are two neighbouring cuts
SentenceSpans(t) ==
    {sp \in Cuts(t) \X Cuts(t) :
        /\ sp[1] < sp[2]
        /\ \A m \in Cuts(t) : ~(sp[1] < m /\ m < sp[2])}

\* positions of u where a word begins
WordStarts(u) ==
    {i \in 1..Len(u) :
        u[i] \notin Whitespace /\ (i = 1 \/ u[i-1] \in Whitespace)}

\* the word of u that begins at position i
WordFrom(u, i) ==
    SubSeq(u, i, CHOOSE j \in i..Len(u) :
                    /\ \A m \in i..j : u[m] \notin Whitespace
                    /\ (j = Len(u) \/ u[j+1] \in Whitespace))

\* the words of u, in order
WordList(u) ==
    LET S == WordStarts(u)
        nth(k) == CHOOSE x \in S : Cardinality({y \in S : y < x}) = k - 1
    IN  [k \in 1..Cardinality(S) |-> WordFrom(u, nth(k))]

\* u without its punctuation characters
Unpunctuated(u) ==
    LET keep == {i \in 1..Len(u) : u[i] \notin Punctuation}
        nth(k) == CHOOSE x \in keep : Cardinality({y \in keep : y < x}) = k - 1
    IN  [k \in 1..Cardinality(keep) |-> u[nth(k)]]

\* the words of the sentence sp of t
SentenceWords(t, sp) == WordList(Unpunctuated(SubSeq(t, sp[1] + 1, sp[2] - 1)))

\* the (sentence, start index) positions of t where the words p occur
\* contiguously and in order
Occurrences(t, p) ==
    UNION { LET w == SentenceWords(t, sp)
            IN  {<<sp, i>> : i \in {j \in 1..Len(w) :
                                     /\ j + Len(p) - 1 <= Len(w)
                                     /\ SubSeq(w, j, j + Len(p) - 1) = p}}
            : sp \in SentenceSpans(t) }

\* the words p joined by single spaces
RECURSIVE JoinWords(_)
JoinWords(p) ==
    IF p = <<>> THEN <<>>
    ELSE IF Len(p) = 1 THEN p[1]
    ELSE p[1] \o <<Space>> \o JoinWords(Tail(p))

\* the nodes of the trie under node, each with the words of its path
RECURSIVE NodesUnder(_, _)
NodesUnder(node, path) ==
    {[path |-> path, node |-> node]}
    \cup UNION { NodesUnder(node.children[i].val,
                            Append(path, node.children[i].key))
                 : i \in 1..Len(node.children) }

\* the nodes of the trie other than the root
NonRootNodes == NodesUnder(root, <<>>) \ {[path |-> <<>>, node |-> root]}

\* get_phrases has returned
Extracted == pc \in {"print_top_x", "done"}

Keys(d) == {d[i].key : i \in 1..Len(d)}

\* the dict d as a set of <<key, value>> pairs
Items(d) == {<<d[i].key, d[i].val>> : i \in 1..Len(d)}

----------------------------------------------------------------------------
(* C1 *)

\* C1: with 1 <= minlen <= maxlen, after build_tree and get_phrases every
\* entry (phrase, count) of the candidate map has count equal to the number
\* of (sentence, start index) positions at which the phrase's words occur
\* contiguously and in order inside one sentence of the text.
C1_CountIsOccurrences ==
    (Extracted /\ ValidConfig) =>
        \A i \in 1..Len(phrases) :
            phrases[i].val =
                Cardinality(Occurrences(text, WordList(phrases[i].key)))

\* a phrase of two words or more was recorded with a count of two or more,
\* its occurrences lying in two different sentences
C1_Witness ==
    /\ Extracted
    /\ \E i \in 1..Len(phrases) :
         /\ phrases[i].val >= 2
         /\ Len(WordList(phrases[i].key)) >= 2
         /\ \E o1, o2 \in Occurrences(text, WordList(phrases[i].key)) :
               o1[1] # o2[1]

----------------------------------------------------------------------------
(* C2 *)

\* C2: with 1 <= minlen <= maxlen, every phrase recorded in the candidate
\* map has a number of words n with minlen <= n <= maxlen.
C2_PhraseLengthInRange ==
    (Extracted /\ ValidConfig) =>
        \A i \in 1..Len(phrases) :
            /\ minlen <= Len(WordList(phrases[i].key))
            /\ Len(WordList(phrases[i].key)) <= maxlen

\* phrases of exactly minlen and of exactly maxlen words were recorded, from
\* a sentence longer than maxlen, and a shorter run of words was left out
C2_Witness ==
    /\ Extracted
    /\ minlen < maxlen
    /\ \E k \in 1..Len(visited) : Len(visited[k]) > maxlen
    /\ \E i \in 1..Len(phrases) : Len(WordList(phrases[i].key)) = minlen
    /\ \E i \in 1..Len(phrases) : Len(WordList(phrases[i].key)) = maxlen

----------------------------------------------------------------------------
(* C3 *)

\* C3: every phrase recorded in the candidate map is a contiguous run of
\* words of one single sentence, the sentences being the pieces of the text
\* between the characters . ; ! ?
C3_PhraseWithinOneSentence ==
    Extracted =>
        \A i \in 1..Len(phrases) :
            Occurrences(text, WordList(phrases[i].key)) # {}

\* the text has two sentences with words, a phrase of two words was
\* recorded, and the last word of the first of two neighbouring sentences
\* followed by the first word of the second is not a recorded phrase
C3_Witness ==
    /\ Extracted
    /\ \E i \in 1..Len(phrases) : Len(WordList(phrases[i].key)) >= 2
    /\ \E k \in 1..(Len(visited) - 1) :
         /\ visited[k] # <<>>
         /\ visited[k+1] # <<>>
         /\ JoinWords(<<visited[k][Len(visited[k])], visited[k+1][1]>>)
               \notin Keys(phrases)

----------------------------------------------------------------------------
(* C4 *)

\* every edge at or below node has child.count <= parent.count
RECURSIVE EdgesOrdered(_)
EdgesOrdered(node) ==
    \A i \in 1..Len(node.children) :
        /\ node.children[i].val.count <= node.count
        /\ EdgesOrdered(node.children[i].val)

\* C4 as stated: in every reachable trie state every parent->child edge,
\* the edges leaving the root included, has child.count <= parent.count.
C4_EveryEdgeOrdered == EdgesOrdered(root)

\* C4, amended: in every reachable trie state every parent->child edge whose
\* parent is not the root has child.count <= parent.count (the root keeps
\* the count 0 it was built with, below the count of each of its children).
C4_NonRootEdgesOrdered ==
    \A i \in 1..Len(root.children) : EdgesOrdered(root.children[i].val)

\* a node counted twice has a child counted once, and a node has a child of
\* its own count
C4_Witness ==
    /\ \E n \in NonRootNodes : \E i \in 1..Len(n.node.children) :
          n.node.count >= 2 /\ n.node.children[i].val.count < n.node.count
    /\ \E n \in NonRootNodes : \E i \in 1..Len(n.node.children) :
          n.node.children[i].val.count = n.node.count

----------------------------------------------------------------------------
(* C5 *)

PQ == Str(<<"p", " ", "q">>)
QR == Str(<<"q", " ", "r">>)
PQR == Str(<<"p", " ", "q", " ", "r">>)

IsScenarioD == text = ScenarioD /\ minlen = 2 /\ maxlen = 3 /\ top_x = 3

\* C5 as stated: for "p q r. p q r." with minlen=2, maxlen=3 the candidate
\* map is exactly {"p q": 2, "q r": 2, "p q r": 2}, and with topK=3 all three
\* phrases are output.
C5_ScenarioD_ThreePhrases ==
    (IsScenarioD /\ Extracted) =>
        /\ Items(phrases) = {<<PQ, 2>>, <<QR, 2>>, <<PQR, 2>>}
        /\ pc = "done" =>
             {output[i].phrase : i \in 1..Len(output)} = {PQ, QR, PQR}

\* C5, amended: for "p q r. p q r." with minlen=2, maxlen=3 the candidate map
\* is exactly {"p q r": 2, "q r": 2} ("p q" and the single words are not
\* recorded), and with topK=3 both phrases are output.
C5_ScenarioD_TwoPhrases ==
    (IsScenarioD /\ Extracted) =>
        /\ Items(phrases) = {<<PQR, 2>>, <<QR, 2>>}
        /\ Len(phrases) = 2
        /\ pc = "done" =>
             /\ Len(output) = 2
             /\ {<<output[i].phrase, output[i].count>> : i \in 1..Len(output)}
                   = {<<PQR, 2>>, <<QR, 2>>}

\* scenario D has run to its end and printed
C5_Witness == IsScenarioD /\ pc = "done" /\ output # <<>>

----------------------------------------------------------------------------
(* C6 *)

\* C6: for any candidate map and any topK >= 0, print_top_x emits exactly
\* N = min(topK, |candidates|) lines, ranked 1..N in output order, each a
\* different candidate with its count, the counts non-increasing from line
\* to line, and every candidate not emitted has a count <= the count of the
\* last line; topK = 0 or an empty map gives no output.
C6_TopXRanked ==
    pc = "done" =>
        LET N == IF top_x <= Len(phrases) THEN top_x ELSE Len(phrases)
            emitted == {output[i].phrase : i \in 1..Len(output)}
        IN  /\ Len(output) = N
            /\ \A i \in 1..Len(output) :
                 /\ output[i].rank = i
                 /\ <<output[i].phrase, output[i].count>> \in Items(phrases)
                 /\ i < Len(output) => output[i].count >= output[i+1].count
            /\ Cardinality(emitted) = Len(output)
            /\ \A i \in 1..Len(phrases) :
                 (phrases[i].key \notin emitted /\ output # <<>>)
                    => phrases[i].val <= output[Len(output)].count
            /\ (top_x = 0 \/ phrases = <<>>) => output = <<>>

\* two lines of different counts were printed and a candidate was left out,
\* the map holding the smallest count first
C6_Witness ==
    /\ pc = "done"
    /\ Len(output) = 2
    /\ output[1].count > output[2].count
    /\ Len(phrases) = 3
    /\ phrases[1].val < phrases[2].val
    /\ phrases[1].val < phrases[3].val

----------------------------------------------------------------------------
(* C7 *)

\* C7: an invalid configuration (minlen < 1 or maxlen < minlen) is rejected
\* before processing: with it the pipeline never tokenizes text, inserts a
\* window into the trie, extracts candidates or prints ranked output.
C7_InvalidConfigRejected ==
    ~ValidConfig =>
        /\ pc = "main"
        /\ sentences = <<>>
        /\ visited = <<>>
        /\ inserted = <<>>
        /\ writes = <<>>
        /\ phrases = <<>>
        /\ output = <<>>

\* C7: in particular no line is ever printed under an invalid configuration.
C7_InvalidConfigPrintsNothing == ~ValidConfig => output = <<>>

----------------------------------------------------------------------------
(* C8 *)

\* C8: after get_phrases, for every non-root node at depth d the
\* space-joined text of its path is a key of the candidate map if and only
\* if d >= minlen and the node has no children or a child of strictly
\* smaller count; the value of such a key is the node's count.  (Children of
\* recorded and of unrecorded parents alike fall under the rule.)
C8_FrequencyDropRule ==
    Extracted =>
        \A n \in NonRootNodes :
            LET key == JoinWords(n.path)
                kids == n.node.children
                drops == \/ kids = <<>>
                         \/ \E i \in 1..Len(kids) : kids[i].val.count < n.node.count
            IN  /\ key \in Keys(phrases) <=> (Len(n.path) >= minlen /\ drops)
                /\ key \in Keys(phrases) => <<key, n.node.count>> \in Items(phrases)

\* a recorded parent has a recorded child, and a parent long enough but not
\* recorded has a recorded child
C8_Witness ==
    /\ Extracted
    /\ \E n \in NonRootNodes : \E i \in 1..Len(n.node.children) :
          /\ JoinWords(n.path) \in Keys(phrases)
          /\ JoinWords(Append(n.path, n.node.children[i].key)) \in Keys(phrases)
    /\ \E n \in NonRootNodes : \E i \in 1..Len(n.node.children) :
          /\ Len(n.path) >= minlen
          /\ JoinWords(n.path) \notin Keys(phrases)
          /\ JoinWords(Append(n.path, n.node.children[i].key)) \in Keys(phrases)

----------------------------------------------------------------------------
(* C9 *)

\* the windows the sentence of words w, the k-th visited, is to contribute
ExpectedWindows(k, w) ==
    LET n == Len(w)
        count == IF n - minlen + 1 > 0 THEN n - minlen + 1 ELSE 0
    IN  [j \in 1..count |->
            [sentence |-> k, start |-> j - 1,
             window |-> SubSeq(w, j, IF n <= j - 1 + maxlen THEN n ELSE j - 1 + maxlen)]]

\* the insertions made so far for the k-th sentence visited
InsertedFor(k) ==
    LET ofK(e) == e.sentence = k IN SelectSeq(inserted, ofK)

\* C9: for every sentence of n words build_tree inserts exactly
\* max(0, n - minlen + 1) windows, one per start index s in [0, n - minlen],
\* in that order, the window being words[s .. min(n, s + maxlen)); every
\* window has between minlen and maxlen words; a sentence of fewer than
\* minlen words causes no insertion.  While a sentence is being visited the
\* insertions made are the first of these.
C9_WindowGeneration ==
    /\ Len(visited) = sidx
    /\ \A e \in {inserted[i] : i \in 1..Len(inserted)} :
          /\ e.sentence \in 1..sidx
          /\ minlen <= Len(e.window) /\ Len(e.window) <= maxlen
    /\ \A k \in 1..Len(visited) :
          LET want == ExpectedWindows(k, visited[k])
              got == InsertedFor(k)
          IN  /\ Len(got) <= Len(want)
              /\ got = SubSeq(want, 1, Len(got))
              /\ (k < sidx \/ pc # "build_tree") => got = want
              /\ (Len(visited[k]) < minlen) => got = <<>>

\* the tree is built from an empty sentence, a window cut short by the end
\* of its sentence and a window of maxlen words
C9_Witness ==
    /\ Extracted
    /\ minlen < maxlen
    /\ \E k \in 1..Len(visited) : visited[k] = <<>>
    /\ \E i \in 1..Len(inserted) : Len(inserted[i].window) < maxlen
    /\ \E i \in 1..Len(inserted) :
          /\ Len(inserted[i].window) = maxlen
          /\ Len(visited[inserted[i].sentence]) > maxlen + inserted[i].start - 1

----------------------------------------------------------------------------
(* C10 *)

\* C10 as stated: during one run of get_phrases each key of the candidate
\* map is written at most once.
C10_KeyWrittenOnce ==
    \A i, j \in 1..Len(writes) : i < j => writes[i].key # writes[j].key

\* C10, amended: distinct trie paths always produce distinct phrase texts,
\* and every write to a key stores the count of the one node whose path has
\* that text; a key may be written more than once (once per child of smaller
\* count), and a later write never changes the value written earlier.
C10_WritesOfOneKeyAgree ==
    Extracted =>
        LET nodes == NodesUnder(root, <<>>) IN
        /\ \A n1, n2 \in nodes :
              n1.path # n2.path => PhraseText(n1.path) # PhraseText(n2.path)
        /\ \A i \in 1..Len(writes) :
              \E n \in nodes :
                 /\ PhraseText(n.path) = writes[i].key
                 /\ n.node.count = writes[i].val
        /\ \A i, j \in 1..Len(writes) :
              writes[i].key = writes[j].key => writes[i].val = writes[j].val

\* a key was written twice, for two children of different counts
C10_Witness ==
    /\ Extracted
    /\ \E i, j \in 1..Len(writes) : i < j /\ writes[i].key = writes[j].key
    /\ \E n \in NonRootNodes : \E i, j \in 1..Len(n.node.children) :
          /\ Len(n.path) >= minlen
          /\ n.node.children[i].val.count < n.node.children[j].val.count
          /\ n.node.children[j].val.count < n.node.count

====
